---- MODULE Spec2Model ----
(***************************************************************************)
(* Order lifecycle and stock bookkeeping of the grocery marketplace        *)
(* backend: createProduct, updateProduct, createOrder, updateOrderStatus   *)
(* over the users / products / orders / order_items tables.                *)
(*                                                                         *)
(* Rows are records, tables are sequences indexed by the serial id.        *)
(* Decimal columns (numeric(10,2)) are integers counting hundredths.       *)
(* Attributes no handler modelled here reads back (names, addresses,       *)
(* timestamps, payment method) are left out of the rows.                   *)
(*                                                                         *)
(* Spec     : every handler call is one action (calls run one at a time).  *)
(* SpecConc : two requests run concurrently, one action per database       *)
(*            statement, over the same tables.                             *)
(***************************************************************************)
EXTENDS Integers, Sequences, FiniteSets, TLC

VARIABLES products, orders, orderItems, last, faults, procs, db0

vars == <<products, orders, orderItems, last, faults, procs, db0>>

tables == <<products, orders, orderItems>>

\* ---------------------------------------------------------------- bounds
MaxProducts == 2
MaxOrders == 1
MaxItems == 2
MaxStock == 2
MaxQty == 2
\* store failures injected in one behaviour
MaxFaults == 1

\* ------------------------------------------------------- fixed test data
\* users table: ids 1..3 exist, every other id resolves to no row
usersTable == <<"customer", "seller", "seller">>

UserIds == 1..(Len(usersTable) + 1)

\* Money is counted in thousandths. The prices of products, which the store
\* keeps with two fractional digits; the two values are further apart than
\* the tolerance.
Prices == {1000, 2500}

\* The unit prices a request may carry: any positive number passes the input
\* schema. 2.506 is not a multiple of 0.01, and 2.51 is 0.01 above a price.
\* (With these values no product or sum ends on half a hundredth: the
\* double-precision results of the handler round as the exact ones do, and
\* 2.51 - 2.5 in double precision is below 0.01.)
UnitPrices == Prices \cup {2506, 2510}

\* 0.01 expressed in thousandths
PRICE_TOLERANCE == 10

\* a number as a numeric(10,2) column keeps it: rounded to two fractional
\* digits, half away from zero (x >= 0)
numeric2(x) == ((x + 5) \div 10) * 10

orderStatusSchema ==
    {"pending_confirmation", "confirmed", "delivering", "delivered", "cancelled"}

Abs(x) == IF x < 0 THEN -x ELSE x

\* ------------------------------------------------------ status machine
VALID_STATUS_TRANSITIONS_Late(s) ==
    CASE s = "pending_confirmation" -> {"confirmed", "cancelled"}
      [] s = "confirmed" -> {"delivering", "cancelled"}
      [] s = "delivering" -> {"delivered", "cancelled"}
      [] s = "delivered" -> {"cancelled"}
      [] s = "cancelled" -> {}

VALID_STATUS_TRANSITIONS_Recancel(s) ==
    CASE s = "pending_confirmation" -> {"confirmed", "cancelled"}
      [] s = "confirmed" -> {"delivering", "cancelled"}
      [] s = "delivering" -> {"delivered", "cancelled"}
      [] s = "delivered" -> {}
      [] s = "cancelled" -> {"cancelled"}

VALID_STATUS_TRANSITIONS_Reopen(s) ==
    CASE s = "pending_confirmation" -> {"confirmed", "cancelled"}
      [] s = "confirmed" -> {"delivering", "cancelled"}
      [] s = "delivering" -> {"delivered", "cancelled"}
      [] s = "delivered" -> {}
      [] s = "cancelled" -> {"pending_confirmation"}

VALID_STATUS_TRANSITIONS(s) ==
    CASE s = "pending_confirmation" -> {"confirmed", "cancelled"}
      [] s = "confirmed" -> {"delivering", "cancelled"}
      [] s = "delivering" -> {"delivered", "cancelled"}
      [] s = "delivered" -> {}
      [] s = "cancelled" -> {}

\* ------------------------------------------------------------ createOrder
\* select from users where id = .. and role = ..
userWithRole(id, role) == id \in DOMAIN usersTable /\ usersTable[id] = role

\* the user checks without the role condition
usersError_AnyRole(input) ==
    IF input.customer_id \notin DOMAIN usersTable THEN "CustomerNotFound"
    ELSE IF input.seller_id \notin DOMAIN usersTable THEN "SellerNotFound"
    ELSE "ok"

usersError(input) ==
    IF ~userWithRole(input.customer_id, "customer") THEN "CustomerNotFound"
    ELSE IF ~userWithRole(input.seller_id, "seller") THEN "SellerNotFound"
    ELSE "ok"

lineError_NoStockCheck(prods, seller_id, item) ==
    IF ~(item.product_id \in DOMAIN prods
         /\ prods[item.product_id].seller_id = seller_id)
    THEN "ProductNotFoundForSeller"
    ELSE IF Abs(item.unit_price - prods[item.product_id].price) > PRICE_TOLERANCE
    THEN "PriceMismatch"
    ELSE "ok"

\* the line checks with the product selected by id alone
lineError_AnySeller(prods, seller_id, item) ==
    IF item.product_id \notin DOMAIN prods
    THEN "ProductNotFoundForSeller"
    ELSE IF prods[item.product_id].stock_quantity < item.quantity
    THEN "InsufficientStock"
    ELSE IF Abs(item.unit_price - prods[item.product_id].price) > PRICE_TOLERANCE
    THEN "PriceMismatch"
    ELSE "ok"

\* the line checks with the price compared before the stock
lineError_PriceBeforeStock(prods, seller_id, item) ==
    IF ~(item.product_id \in DOMAIN prods
         /\ prods[item.product_id].seller_id = seller_id)
    THEN "ProductNotFoundForSeller"
    ELSE IF Abs(item.unit_price - prods[item.product_id].price) > PRICE_TOLERANCE
    THEN "PriceMismatch"
    ELSE IF prods[item.product_id].stock_quantity < item.quantity
    THEN "InsufficientStock"
    ELSE "ok"

\* the three checks made on one line against the product rows prods
lineError(prods, seller_id, item) ==
    IF ~(item.product_id \in DOMAIN prods
         /\ prods[item.product_id].seller_id = seller_id)
    THEN "ProductNotFoundForSeller"
    ELSE IF prods[item.product_id].stock_quantity < item.quantity
    THEN "InsufficientStock"
    ELSE IF Abs(item.unit_price - prods[item.product_id].price) > PRICE_TOLERANCE
    THEN "PriceMismatch"
    ELSE "ok"

\* a validated line: the request line plus total_price and the stock read
validatedItem(prods, item) ==
    [product_id |-> item.product_id,
     quantity |-> item.quantity,
     unit_price |-> item.unit_price,
     total_price |-> item.quantity * item.unit_price,
     current_stock |-> prods[item.product_id].stock_quantity]

\* the validation loop from line i on; stops at the first failing line
RECURSIVE validateItems(_, _, _, _, _)
validateItems(prods, seller_id, items, i, acc) ==
    IF i > Len(items) THEN acc
    ELSE LET e == lineError(prods, seller_id, items[i])
         IN IF e # "ok" THEN [acc EXCEPT !.err = e]
            ELSE validateItems(prods, seller_id, items, i + 1,
                    [err |-> "ok",
                     totalValue |-> acc.totalValue
                                      + items[i].quantity * items[i].unit_price,
                     validatedItems |-> Append(acc.validatedItems,
                                               validatedItem(prods, items[i]))])

emptyValidation == [err |-> "ok", totalValue |-> 0, validatedItems |-> <<>>]

\* the stock written for one validated line: the stock read during
\* validation minus the line's quantity
newStockQuantity(item) == item.current_stock - item.quantity

\* the item loop with the stock update lacking its where clause: every
\* product row gets the line's new stock
RECURSIVE writeItems_NoWhere(_, _, _, _)
writeItems_NoWhere(db, order_id, vitems, i) ==
    IF i > Len(vitems) THEN db
    ELSE LET it == vitems[i]
         IN writeItems_NoWhere(
              [db EXCEPT
                 !.orderItems = Append(@, [order_id |-> order_id,
                                           product_id |-> it.product_id,
                                           quantity |-> it.quantity,
                                           unit_price |-> numeric2(it.unit_price),
                                           total_price |-> numeric2(it.total_price)]),
                 !.products = [p \in DOMAIN @ |->
                                 [@[p] EXCEPT !.stock_quantity =
                                                 newStockQuantity(it)]]],
              order_id, vitems, i + 1)

\* the item loop replacing the order_items table by the new order's items
RECURSIVE writeItems_Replace(_, _, _, _)
writeItems_Replace(db, order_id, vitems, i) ==
    IF i > Len(vitems) THEN db
    ELSE LET it == vitems[i]
         IN writeItems_Replace(
              [db EXCEPT
                 !.orderItems = Append(IF i = 1 THEN <<>> ELSE @,
                                       [order_id |-> order_id,
                                        product_id |-> it.product_id,
                                        quantity |-> it.quantity,
                                        unit_price |-> numeric2(it.unit_price),
                                        total_price |-> numeric2(it.total_price)]),
                 !.products[it.product_id].stock_quantity = newStockQuantity(it)],
              order_id, vitems, i + 1)

\* the loop that inserts the order items and updates the stock, from line i
RECURSIVE writeItems(_, _, _, _)
writeItems(db, order_id, vitems, i) ==
    IF i > Len(vitems) THEN db
    ELSE LET it == vitems[i]
         IN writeItems(
              [db EXCEPT
                 !.orderItems = Append(@, [order_id |-> order_id,
                                           product_id |-> it.product_id,
                                           quantity |-> it.quantity,
                                           unit_price |-> numeric2(it.unit_price),
                                           total_price |-> numeric2(it.total_price)]),
                 !.products[it.product_id].stock_quantity = newStockQuantity(it)],
              order_id, vitems, i + 1)

\* the order row inserted with the status the seller sets next
persistOrder_Confirmed(db, input, v) ==
    LET order_id == Len(db.orders) + 1
        withOrder == [db EXCEPT !.orders =
                         Append(@, [customer_id |-> input.customer_id,
                                    seller_id |-> input.seller_id,
                                    total_value |-> numeric2(v.totalValue),
                                    status |-> "confirmed"])]
    IN writeItems(withOrder, order_id, v.validatedItems, 1)

\* the order row and the lines' writes, given the validation's result
persistOrder(db, input, v) ==
    LET order_id == Len(db.orders) + 1
        withOrder == [db EXCEPT !.orders =
                         Append(@, [customer_id |-> input.customer_id,
                                    seller_id |-> input.seller_id,
                                    total_value |-> numeric2(v.totalValue),
                                    status |-> "pending_confirmation"])]
    IN writeItems(withOrder, order_id, v.validatedItems, 1)

\* the callback passed to db.transaction: the error it throws ("ok" when it
\* returns) and the tables as the callback left them
createOrderBody(db, input) ==
    LET ue == usersError(input)
    IN IF ue # "ok" THEN [err |-> ue, db |-> db]
       ELSE LET v == validateItems(db.products, input.seller_id, input.items,
                                   1, emptyValidation)
            IN IF v.err # "ok" THEN [err |-> v.err, db |-> db]
               ELSE [err |-> "ok", db |-> persistOrder(db, input, v)]

\* db.transaction: commit when the callback returns, roll back when it throws
transaction(pre, out) == IF out.err = "ok" THEN out.db ELSE pre

\* createOrder with the writes of a line made as soon as the line is
\* validated and no transaction around them
RECURSIVE eagerItems(_, _, _, _)
eagerItems(d, input, order_id, i) ==
    IF i > Len(input.items) THEN [err |-> "ok", db |-> d]
    ELSE LET e == lineError(d.products, input.seller_id, input.items[i])
         IN IF e # "ok" THEN [err |-> e, db |-> d]
            ELSE eagerItems(
                   writeItems(d, order_id,
                              <<validatedItem(d.products, input.items[i])>>, 1),
                   input, order_id, i + 1)

createOrder_NoRollback(d, input) ==
    LET ue == usersError(input)
        out == eagerItems(d, input, Len(d.orders) + 1, 1)
        v == validateItems(d.products, input.seller_id, input.items,
                           1, emptyValidation)
    IN IF ue # "ok" THEN [result |-> ue, db |-> d]
       ELSE IF out.err # "ok" THEN [result |-> out.err, db |-> out.db]
       ELSE [result |-> "ok",
             db |-> [out.db EXCEPT !.orders =
                        Append(@, [customer_id |-> input.customer_id,
                                   seller_id |-> input.seller_id,
                                   total_value |-> numeric2(v.totalValue),
                                   status |-> "pending_confirmation"])]]

createOrder(db, input) ==
    LET out == createOrderBody(db, input)
    IN [result |-> out.err, db |-> transaction(db, out)]

\* ------------------------------------------------------ updateOrderStatus
\* select from order_items where order_id = orderId, in row order
itemsOfOrder(items, orderId) ==
    SelectSeq(items, LAMBDA r : r.order_id = orderId)

\* one pass of the restoration loop: read the product's stock, write it
\* back increased by the item's quantity (no row: nothing written)
restoreOne(prods, item) ==
    IF item.product_id \in DOMAIN prods
    THEN [prods EXCEPT ![item.product_id].stock_quantity = @ + item.quantity]
    ELSE prods

\* the restoration loop over items[i..n]
RECURSIVE restoreLoop(_, _, _, _)
restoreLoop(prods, items, i, n) ==
    IF i > n THEN prods
    ELSE restoreLoop(restoreOne(prods, items[i]), items, i + 1, n)

\* restoreStockQuantities, of which the store completes the first k updates
restoreStockQuantities(db, orderId, k) ==
    LET items == itemsOfOrder(db.orderItems, orderId)
        n == IF k < Len(items) THEN k ELSE Len(items)
    IN [db EXCEPT !.products = restoreLoop(db.products, items, 1, n)]

existingOrders_AnySeller(ords, input) ==
    {id \in DOMAIN ords : id = input.id}

\* the first select: the order row with this id and this seller
existingOrders(ords, input) ==
    {id \in DOMAIN ords : id = input.id /\ ords[id].seller_id = input.seller_id}

\* the restoration called on every accepted transition
restores_Always(cur, target) == TRUE

\* whether the handler calls restoreStockQuantities
restores(cur, target) == target = "cancelled" /\ cur # "cancelled"

\* A store that never fails completes every write.
NoFault == MaxItems + 1

\* updateOrderStatus that selects the order by id alone, checks the
\* transition, and only then compares the seller
updateOrderStatus_TransitionBeforeOwner(db, input, k) ==
    IF input.id \notin DOMAIN db.orders
    THEN [result |-> "null", db |-> db]
    ELSE IF input.status \notin VALID_STATUS_TRANSITIONS(db.orders[input.id].status)
    THEN [result |-> "InvalidTransition", db |-> db]
    ELSE [result |-> "null", db |-> db]

\* updateOrderStatus when the store completes k write statements and then
\* throws (k = NoFault: it never throws). The handler opens no transaction,
\* so each completed statement stays.
updateOrderStatus(db, input, k) ==
    IF existingOrders(db.orders, input) = {}
    THEN [result |-> "null", db |-> db]
    ELSE LET cur == db.orders[input.id].status
         IN IF input.status \notin VALID_STATUS_TRANSITIONS(cur)
            THEN [result |-> "InvalidTransition", db |-> db]
            ELSE LET n == IF restores(cur, input.status)
                          THEN Len(itemsOfOrder(db.orderItems, input.id))
                          ELSE 0
                     restored == IF restores(cur, input.status)
                                 THEN restoreStockQuantities(db, input.id, k)
                                 ELSE db
                 IN IF k <= n
                    THEN [result |-> "StoreError", db |-> restored]
                    ELSE [result |-> "ok",
                          db |-> [restored EXCEPT
                                    !.orders[input.id].status = input.status]]

\* ------------------------------------------------ createProduct / updateProduct
\* createProduct checking only that the user exists
createProduct_AnyRole(db, input) ==
    IF input.seller_id \notin DOMAIN usersTable
    THEN [result |-> "SellerNotFound", db |-> db]
    ELSE [result |-> "ok",
          db |-> [db EXCEPT !.products =
                     Append(@, [seller_id |-> input.seller_id,
                                price |-> input.price,
                                stock_quantity |-> input.stock_quantity])]]

createProduct(db, input) ==
    IF input.seller_id \notin DOMAIN usersTable
    THEN [result |-> "SellerNotFound", db |-> db]
    ELSE IF usersTable[input.seller_id] # "seller"
    THEN [result |-> "NotASeller", db |-> db]
    ELSE [result |-> "ok",
          db |-> [db EXCEPT !.products =
                     Append(@, [seller_id |-> input.seller_id,
                                price |-> input.price,
                                stock_quantity |-> input.stock_quantity])]]

\* an optional attribute that the request leaves out (no valid price or
\* stock is negative)
undefined == -1

\* updateProduct writing every attribute of the schema, an absent stock as 0
updateProduct_WholeRow(db, input) ==
    IF input.id \notin DOMAIN db.products
    THEN [result |-> "null", db |-> db]
    ELSE [result |-> "ok",
          db |-> [db EXCEPT
                    !.products[input.id].price =
                        IF input.price # undefined
                        THEN numeric2(input.price) ELSE @,
                    !.products[input.id].stock_quantity =
                        IF input.stock_quantity # undefined
                        THEN input.stock_quantity ELSE 0]]

updateProduct(db, input) ==
    IF input.id \notin DOMAIN db.products
    THEN [result |-> "null", db |-> db]
    ELSE [result |-> "ok",
          db |-> [db EXCEPT
                    !.products[input.id].price =
                        IF input.price # undefined
                        THEN numeric2(input.price) ELSE @,
                    !.products[input.id].stock_quantity =
                        IF input.stock_quantity # undefined
                        THEN input.stock_quantity ELSE @]]

\* ------------------------------------------------------------ getOrderById
\* getOrderById comparing the user id alone, whatever the role given
getOrderById_AnyRole(db, input) ==
    IF input.id \notin DOMAIN db.orders
    THEN [result |-> "null", db |-> db]
    ELSE IF /\ input.userId # undefined
            /\ input.userRole # "undefined"
            /\ db.orders[input.id].customer_id # input.userId
            /\ db.orders[input.id].seller_id # input.userId
    THEN [result |-> "null", db |-> db]
    ELSE [result |-> "order", db |-> db]

\* The handler only selects: the order joined with its customer, the seller,
\* the items. It returns null or the order with its items; the tables stay.
getOrderById(db, input) ==
    IF input.id \notin DOMAIN db.orders
         \/ db.orders[input.id].customer_id \notin DOMAIN usersTable
    THEN [result |-> "null", db |-> db]
    ELSE IF db.orders[input.id].seller_id \notin DOMAIN usersTable
    THEN [result |-> "null", db |-> db]
    ELSE IF /\ input.userId # undefined
            /\ input.userRole # "undefined"
            /\ \/ (input.userRole = "customer"
                     /\ db.orders[input.id].customer_id # input.userId)
               \/ (input.userRole = "seller"
                     /\ db.orders[input.id].seller_id # input.userId)
    THEN [result |-> "null", db |-> db]
    ELSE [result |-> "order", db |-> db]

\* ------------------------------------------------------------ request inputs
\* request lines at the products' own prices
Lines == [product_id : 1..MaxProducts, quantity : 1..MaxQty, unit_price : Prices]

ItemLists == UNION {[1..n -> Lines] : n \in 1..MaxItems}

CreateOrderInputs ==
    [customer_id : UserIds, seller_id : UserIds, items : ItemLists]

\* One representative item list for the requests that fail the user checks
\* (createOrder never reads their items), every item list for the others.
CreateOrderRequests ==
    {i \in CreateOrderInputs :
        usersError(i) = "ok" \/ i.items = <<[product_id |-> 1, quantity |-> 1,
                                             unit_price |-> 1000]>>}

UpdateOrderStatusInputs ==
    [id : 1..(MaxOrders + 1), status : orderStatusSchema, seller_id : UserIds]

\* the second seller (user 3) lists no products: it is the seller that owns
\* neither a product nor an order
CreateProductInputs ==
    [seller_id : UserIds \ {3}, price : Prices, stock_quantity : 0..MaxStock]

UpdateProductInputs ==
    [id : 1..(MaxProducts + 1), price : Prices \cup {undefined},
     stock_quantity : (0..MaxStock) \cup {undefined}]

\* userId and userRole are optional
GetOrderByIdInputs ==
    [id : 1..(MaxOrders + 2), userId : UserIds \cup {undefined},
     userRole : {"customer", "seller", "undefined"}]

\* ------------------------------------------------------------------- state
db == [products |-> products, orders |-> orders, orderItems |-> orderItems]

Procs == {1, 2}

\* a request handler that is not running
Idle ==
    [pc |-> "idle", op |-> "none", input |-> <<>>, result |-> "none",
     i |-> 0, v |-> emptyValidation, items |-> <<>>, currentStock |-> 0]

NoCall == [op |-> "none", result |-> "none", validated |-> 0]

Init ==
    /\ products = <<>>
    /\ orders = <<>>
    /\ orderItems = <<>>
    /\ last = NoCall
    /\ faults = 0
    /\ procs = [p \in Procs |-> Idle]
    /\ db0 = db

\* ------------------------------------------------ calls that run one at a time
\* the tables after a call, and the call's record
Returns(op, out, validated) ==
    /\ products' = out.db.products
    /\ orders' = out.db.orders
    /\ orderItems' = out.db.orderItems
    /\ last' = [op |-> op, result |-> out.result, validated |-> validated]
    /\ faults' = IF out.result = "StoreError" THEN faults + 1 ELSE faults
    /\ UNCHANGED <<procs, db0>>

CreateProduct ==
    /\ Len(products) < MaxProducts
    /\ \E input \in CreateProductInputs :
          Returns("createProduct", createProduct(db, input), 0)

UpdateProduct ==
    \E input \in UpdateProductInputs :
        Returns("updateProduct", updateProduct(db, input), 0)

\* the number of lines that passed validation before createOrder threw or
\* went on to write
linesValidated(d, input) ==
    IF usersError(input) # "ok" THEN 0
    ELSE Len(validateItems(d.products, input.seller_id, input.items,
                           1, emptyValidation).validatedItems)

CreateOrder ==
    /\ Len(orders) < MaxOrders
    /\ \E input \in CreateOrderRequests :
          Returns("createOrder", createOrder(db, input),
                  linesValidated(db, input))

UpdateOrderStatus ==
    \E input \in UpdateOrderStatusInputs :
        Returns("updateOrderStatus", updateOrderStatus(db, input, NoFault), 0)

\* a call during which the store fails after k completed writes
UpdateOrderStatusStoreError ==
    /\ faults < MaxFaults
    /\ \E input \in UpdateOrderStatusInputs, k \in 0..MaxItems :
          /\ updateOrderStatus(db, input, k).result = "StoreError"
          /\ Returns("updateOrderStatus", updateOrderStatus(db, input, k), 0)

Next ==
    \/ CreateProduct
    \/ UpdateProduct
    \/ CreateOrder
    \/ UpdateOrderStatus
    \/ UpdateOrderStatusStoreError

Spec == Init /\ [][Next]_vars

\* ------------------------------------------------ calls that run concurrently
\* Each process runs one request, one action per database statement. The
\* statements of updateOrderStatus run on db directly and take effect one by
\* one. The statements of createOrder run inside db.transaction, which the
\* code opens with no isolation level, so at the store's default (read
\* committed): each select reads the rows committed so far, and the inserts
\* and updates, which set absolute values, become visible together at commit.

\* requests of customer 1 to seller 2 at the listed price
ConcCreateOrderInputs ==
    {i \in CreateOrderInputs :
        /\ i.customer_id = 1
        /\ i.seller_id = 2
        /\ \A k \in DOMAIN i.items : i.items[k].unit_price = 1000}

ConcUpdateOrderStatusInputs ==
    {i \in UpdateOrderStatusInputs : i.seller_id = 2}

\* restocking or emptying product 1
ConcUpdateProductInputs ==
    {i \in UpdateProductInputs :
        i.id = 1 /\ i.price = undefined /\ i.stock_quantity \in {0, MaxStock}}

ConcCreateProductInputs ==
    {i \in CreateProductInputs :
        i.seller_id = 2 /\ i.price = 1000 /\ i.stock_quantity = MaxStock}

\* The two processes are interchangeable: the one that starts first is 1.
mayStart(p) == procs[p].pc = "idle" /\ \A q \in Procs : q < p => procs[q].pc # "idle"

Finish(p, result) ==
    procs' = [procs EXCEPT ![p].pc = "done", ![p].result = result]

\* createOrder: begin the transaction and run the two user selects
CO_Begin(p) ==
    /\ mayStart(p)
    /\ \E input \in ConcCreateOrderInputs :
          procs' = [procs EXCEPT ![p] =
                      IF usersError(input) # "ok"
                      THEN [Idle EXCEPT !.pc = "done", !.op = "createOrder",
                                        !.input = input,
                                        !.result = usersError(input)]
                      ELSE [Idle EXCEPT !.pc = "validate", !.op = "createOrder",
                                        !.input = input, !.i = 1]]
    /\ UNCHANGED <<tables, last, faults, db0>>

\* createOrder: one pass of the validation loop, on the committed product row
CO_ValidateLine(p) ==
    LET me == procs[p]
        item == me.input.items[me.i]
        e == lineError(products, me.input.seller_id, item)
    IN /\ me.pc = "validate"
       /\ procs' = [procs EXCEPT ![p] =
                      IF e # "ok"
                      THEN [me EXCEPT !.pc = "done", !.result = e]
                      ELSE [me EXCEPT
                              !.pc = IF me.i = Len(me.input.items)
                                     THEN "commit" ELSE "validate",
                              !.i = me.i + 1,
                              !.v = [err |-> "ok",
                                     totalValue |-> me.v.totalValue
                                         + item.quantity * item.unit_price,
                                     validatedItems |->
                                         Append(me.v.validatedItems,
                                                validatedItem(products, item))]]]
       /\ UNCHANGED <<tables, last, faults, db0>>

\* createOrder: the order insert, the item inserts and the stock updates,
\* made visible by the commit
CO_Commit(p) ==
    LET me == procs[p]
        after == persistOrder(db, me.input, me.v)
    IN /\ me.pc = "commit"
       /\ products' = after.products
       /\ orders' = after.orders
       /\ orderItems' = after.orderItems
       /\ Finish(p, "ok")
       /\ UNCHANGED <<last, faults, db0>>

\* createOrder: the store fails a statement; the transaction rolls back
CO_StoreError(p) ==
    /\ procs[p].pc \in {"validate", "commit"}
    /\ faults < MaxFaults
    /\ faults' = faults + 1
    /\ Finish(p, "StoreError")
    /\ UNCHANGED <<tables, last, db0>>

\* updateOrderStatus: the order select, the transition check and, for a
\* cancel, the select of the order's items (rows that never change)
UOS_Begin(p) ==
    /\ mayStart(p)
    /\ \E input \in ConcUpdateOrderStatusInputs :
          LET start == [Idle EXCEPT !.op = "updateOrderStatus", !.input = input]
              cur == orders[input.id].status
              items == itemsOfOrder(orderItems, input.id)
          IN procs' = [procs EXCEPT ![p] =
                IF existingOrders(orders, input) = {}
                THEN [start EXCEPT !.pc = "done", !.result = "null"]
                ELSE IF input.status \notin VALID_STATUS_TRANSITIONS(cur)
                THEN [start EXCEPT !.pc = "done",
                                   !.result = "InvalidTransition"]
                ELSE IF restores(cur, input.status) /\ items # <<>>
                THEN [start EXCEPT !.pc = "restoreRead", !.items = items,
                                   !.i = 1]
                ELSE [start EXCEPT !.pc = "writeStatus"]]
    /\ UNCHANGED <<tables, last, faults, db0>>

\* restoreStockQuantities: the select of the item's product
UOS_RestoreRead(p) ==
    LET me == procs[p]
        item == me.items[me.i]
    IN /\ me.pc = "restoreRead"
       /\ procs' = [procs EXCEPT ![p] =
                      IF item.product_id \in DOMAIN products
                      THEN [me EXCEPT !.pc = "restoreWrite",
                               !.currentStock =
                                   products[item.product_id].stock_quantity]
                      ELSE [me EXCEPT
                               !.pc = IF me.i = Len(me.items)
                                      THEN "writeStatus" ELSE "restoreRead",
                               !.i = me.i + 1]]
       /\ UNCHANGED <<tables, last, faults, db0>>

\* restoreStockQuantities: the update with the stock read plus the quantity
UOS_RestoreWrite(p) ==
    LET me == procs[p]
        item == me.items[me.i]
    IN /\ me.pc = "restoreWrite"
       /\ products' = [products EXCEPT ![item.product_id].stock_quantity =
                          me.currentStock + item.quantity]
       /\ procs' = [procs EXCEPT ![p] =
                      [me EXCEPT !.pc = IF me.i = Len(me.items)
                                        THEN "writeStatus" ELSE "restoreRead",
                                 !.i = me.i + 1]]
       /\ UNCHANGED <<orders, orderItems, last, faults, db0>>

\* updateOrderStatus: the update of the order's status
UOS_WriteStatus(p) ==
    /\ procs[p].pc = "writeStatus"
    /\ orders' = [orders EXCEPT ![procs[p].input.id].status =
                     procs[p].input.status]
    /\ Finish(p, "ok")
    /\ UNCHANGED <<products, orderItems, last, faults, db0>>

\* updateOrderStatus: the store fails the next statement; what was written
\* stays
UOS_StoreError(p) ==
    /\ procs[p].pc \in {"restoreRead", "restoreWrite", "writeStatus"}
    /\ faults < MaxFaults
    /\ faults' = faults + 1
    /\ Finish(p, "StoreError")
    /\ UNCHANGED <<tables, last, db0>>

\* updateProduct and createProduct change the tables in one statement
UP_Call(p) ==
    /\ mayStart(p)
    /\ \E input \in ConcUpdateProductInputs :
          LET out == updateProduct(db, input)
          IN /\ products' = out.db.products
             /\ procs' = [procs EXCEPT ![p] =
                            [Idle EXCEPT !.pc = "done", !.op = "updateProduct",
                                         !.input = input,
                                         !.result = out.result]]
    /\ UNCHANGED <<orders, orderItems, last, faults, db0>>

CP_Call(p) ==
    /\ mayStart(p)
    /\ Len(products) <= MaxProducts
    /\ \E input \in ConcCreateProductInputs :
          LET out == createProduct(db, input)
          IN /\ products' = out.db.products
             /\ procs' = [procs EXCEPT ![p] =
                            [Idle EXCEPT !.pc = "done", !.op = "createProduct",
                                         !.input = input,
                                         !.result = out.result]]
    /\ UNCHANGED <<orders, orderItems, last, faults, db0>>

\* The tables before the two requests: the products of seller 2 (the first
\* at any stock level, the others fully stocked) and at most one order of
\* customer 1, in any status, whose first line names product 1. Every such state is reached by
\* createProduct, createOrder, updateOrderStatus and a final updateProduct
\* that sets the stock.
fixtureLines == [product_id : 1..MaxProducts, quantity : 1..MaxQty]

fixtureItemLists ==
    {l \in UNION {[1..n -> fixtureLines] : n \in 1..MaxItems} :
        l[1].product_id = 1}

fixtureItems(lines) ==
    [k \in DOMAIN lines |->
        [order_id |-> 1, product_id |-> lines[k].product_id,
         quantity |-> lines[k].quantity, unit_price |-> 1000,
         total_price |-> lines[k].quantity * 1000]]

RECURSIVE totalOf(_, _)
totalOf(items, i) ==
    IF i > Len(items) THEN 0 ELSE items[i].total_price + totalOf(items, i + 1)

fixtureOrder(lines, status) ==
    [customer_id |-> 1, seller_id |-> 2,
     total_value |-> totalOf(fixtureItems(lines), 1), status |-> status]

ConcInit ==
    /\ \E s \in 0..MaxStock :
          products = [p \in 1..MaxProducts |->
                        [seller_id |-> 2, price |-> 1000,
                         stock_quantity |-> IF p = 1 THEN s ELSE MaxStock]]
    /\ \/ orders = <<>> /\ orderItems = <<>>
       \/ \E lines \in fixtureItemLists, status \in orderStatusSchema :
             /\ orders = <<fixtureOrder(lines, status)>>
             /\ orderItems = fixtureItems(lines)
    /\ last = NoCall
    /\ faults = 0
    /\ procs = [p \in Procs |-> Idle]
    /\ db0 = db

ConcNext ==
    \E p \in Procs :
        \/ CO_Begin(p)
        \/ CO_ValidateLine(p)
        \/ CO_Commit(p)
        \/ CO_StoreError(p)
        \/ UOS_Begin(p)
        \/ UOS_RestoreRead(p)
        \/ UOS_RestoreWrite(p)
        \/ UOS_WriteStatus(p)
        \/ UOS_StoreError(p)
        \/ UP_Call(p)
        \/ CP_Call(p)

SpecConc == ConcInit /\ [][ConcNext]_vars

\* --------------------------------------- a seller's shop taking several orders
\* The customer (user 1) orders from the seller (user 2), whose products are
\* on sale fully stocked; the requests carry every unit price of UnitPrices,
\* and one order more than MaxOrders may be placed.
ShopLines ==
    [product_id : 1..MaxProducts, quantity : 1..MaxQty, unit_price : UnitPrices]

ShopCreateOrderInputs ==
    [customer_id : {1}, seller_id : {2},
     items : UNION {[1..n -> ShopLines] : n \in 1..MaxItems}]

ShopInit ==
    /\ \E price \in Prices :
          products = [p \in 1..MaxProducts |->
                        [seller_id |-> 2,
                         price |-> IF p = 1 THEN 2500 ELSE price,
                         stock_quantity |-> MaxStock]]
    /\ orders = <<>>
    /\ orderItems = <<>>
    /\ last = NoCall
    /\ faults = 0
    /\ procs = [p \in Procs |-> Idle]
    /\ db0 = db

ShopCreateOrder ==
    /\ Len(orders) <= MaxOrders
    /\ \E input \in ShopCreateOrderInputs :
          Returns("createOrder", createOrder(db, input),
                  linesValidated(db, input))

ShopUpdateOrderStatus ==
    \E input \in ConcUpdateOrderStatusInputs :
        Returns("updateOrderStatus", updateOrderStatus(db, input, NoFault), 0)

ShopNext ==
    \/ ShopCreateOrder
    \/ ShopUpdateOrderStatus

SpecShop == ShopInit /\ [][ShopNext]_vars

\* ------------------------------------------ one order from any catalogue
\* createOrder called on each catalogue that createProduct calls of the two
\* sellers can leave: up to MaxProducts products, each of either seller, at
\* any price and stock
Catalogues ==
    UNION {[1..n -> [seller_id : {2, 3}, price : Prices,
                     stock_quantity : 0..MaxStock]] : n \in 0..MaxProducts}

CatalogueInit ==
    /\ products \in Catalogues
    /\ orders = <<>>
    /\ orderItems = <<>>
    /\ last = NoCall
    /\ faults = 0
    /\ procs = [p \in Procs |-> Idle]
    /\ db0 = db

CatalogueNext == CreateOrder

SpecCatalogue == CatalogueInit /\ [][CatalogueNext]_vars

\* ------------------------------------------------- reading an order back
\* getOrderById called, any number of times, on each of the stores of
\* ConcInit: no order, or one order of customer 1 and seller 2 in any status
GetOrderById ==
    \E input \in GetOrderByIdInputs :
        Returns("getOrderById", getOrderById(db, input), 0)

ReadNext == GetOrderById

SpecRead == ConcInit /\ [][ReadNext]_vars

\* ------------------------------------------------------------ properties
\* the sum of the quantities of the rows items[i..] that reference product p
RECURSIVE quantityFor(_, _, _)
quantityFor(items, p, i) ==
    IF i > Len(items) THEN 0
    ELSE (IF items[i].product_id = p THEN items[i].quantity ELSE 0)
         + quantityFor(items, p, i + 1)

references(items, p) == \E k \in DOMAIN items : items[k].product_id = p

validationErrors ==
    {"CustomerNotFound", "SellerNotFound", "ProductNotFoundForSeller",
     "InsufficientStock", "PriceMismatch"}

\* C1: a createOrder call that fails a validation leaves the orders, the
\* order items and the products (their stock included) exactly as they were.
C1_FailedCreateOrderChangesNothing ==
    [][(last'.op = "createOrder" /\ last'.result \in validationErrors)
          => UNCHANGED tables]_vars

\* a createOrder call failed on a line after an earlier line had passed
C1_Witness ==
    /\ last.op = "createOrder"
    /\ last.result \in {"ProductNotFoundForSeller", "InsufficientStock",
                        "PriceMismatch"}
    /\ last.validated >= 1
    /\ products # <<>>

\* C2: a createOrder call that succeeds lowers the stock of every product
\* its lines name by the quantity the request asks of that product.
C2_StockDecreasesByRequestedQuantity ==
    [][(last'.op = "createOrder" /\ last'.result = "ok")
          => LET newItems == itemsOfOrder(orderItems', Len(orders'))
             IN \A p \in DOMAIN products :
                   references(newItems, p)
                     => products'[p].stock_quantity
                          = products[p].stock_quantity
                              - quantityFor(newItems, p, 1)]_vars

\* the transition table as the specification states it
SpecTransitions ==
    [pending_confirmation |-> {"confirmed", "cancelled"},
     confirmed |-> {"delivering", "cancelled"},
     delivering |-> {"delivered", "cancelled"},
     delivered |-> {},
     cancelled |-> {}]

ownedBy(input) ==
    input.id \in DOMAIN orders /\ orders[input.id].seller_id = input.seller_id

\* C5: whatever the order, a target status outside the table's set for the
\* order's current status makes the owning seller's updateOrderStatus fail
\* with InvalidTransition, the order's status and all stock staying as is.
C5_InvalidTransitionRejected ==
    \A input \in UpdateOrderStatusInputs, k \in 0..NoFault :
        (ownedBy(input)
           /\ input.status \notin SpecTransitions[orders[input.id].status])
          => updateOrderStatus(db, input, k)
               = [result |-> "InvalidTransition", db |-> db]

\* an update was rejected as an invalid transition
C5_Witness ==
    /\ last.op = "updateOrderStatus"
    /\ last.result = "InvalidTransition"
    /\ \E id \in DOMAIN orders : orders[id].status = "delivered"

\* the status sequences that end an order in cancelled
CancelPaths ==
    {<<"cancelled">>, <<"confirmed", "cancelled">>,
     <<"confirmed", "delivering", "cancelled">>}

\* the tables after the seller's updateOrderStatus calls path[i..] on order id
RECURSIVE afterStatuses(_, _, _, _, _)
afterStatuses(d, id, seller_id, path, i) ==
    IF i > Len(path) THEN d
    ELSE afterStatuses(
           updateOrderStatus(d, [id |-> id, status |-> path[i],
                                 seller_id |-> seller_id], NoFault).db,
           id, seller_id, path, i + 1)

\* C6: creating an order and then cancelling it (at once, or after
\* confirmed, or after confirmed and delivering), with no other call in
\* between, puts the stock of every product the order names back to what
\* it was before createOrder.
C6_CreateThenCancelRestoresStock ==
    \A input \in CreateOrderRequests :
        LET created == createOrder(db, input)
        IN created.result = "ok"
             => \A path \in CancelPaths :
                   LET final == afterStatuses(created.db, Len(created.db.orders),
                                              input.seller_id, path, 1)
                   IN /\ final.orders[Len(final.orders)].status = "cancelled"
                      /\ \A p \in DOMAIN products :
                            references(input.items, p)
                              => final.products[p].stock_quantity
                                   = products[p].stock_quantity

cancelOf(id) ==
    [id |-> id, status |-> "cancelled", seller_id |-> orders[id].seller_id]

\* C7: the seller's cancel of an order adds each item's quantity to its
\* product's stock once, and a second cancel of the same order is rejected
\* with InvalidTransition and changes nothing: the quantities are added
\* back at most once.
C7_CancelRestoresAtMostOnce ==
    \A id \in DOMAIN orders :
        LET first == updateOrderStatus(db, cancelOf(id), NoFault)
            second == updateOrderStatus(first.db, cancelOf(id), NoFault)
            items == itemsOfOrder(orderItems, id)
        IN /\ second.result = "InvalidTransition"
           /\ second.db = first.db
           /\ \A p \in DOMAIN products :
                 second.db.products[p].stock_quantity
                   = products[p].stock_quantity
                       + (IF first.result = "ok"
                          THEN quantityFor(items, p, 1) ELSE 0)

\* a cancel was rejected on an order that a cancel had restored before
C7_Witness ==
    /\ last.op = "updateOrderStatus"
    /\ last.result = "InvalidTransition"
    /\ \E id \in DOMAIN orders :
          /\ orders[id].status = "cancelled"
          /\ itemsOfOrder(orderItems, id) # <<>>

\* C9: an updateOrderStatus call that fails with a store error leaves every
\* product's stock and every order's status as they were before the call.
C9_StoreErrorChangesNothing ==
    [][(last'.op = "updateOrderStatus" /\ last'.result = "StoreError")
          => UNCHANGED tables]_vars

\* C10: for an order id that does not exist or an order of another seller,
\* updateOrderStatus returns null, whatever the target status, and changes
\* neither an order nor a product.
C10_NotFoundReturnsNull ==
    \A input \in UpdateOrderStatusInputs, k \in 0..NoFault :
        ~ownedBy(input)
          => updateOrderStatus(db, input, k) = [result |-> "null", db |-> db]

\* null was returned while an order of seller 2 existed
C10_Witness ==
    /\ last.op = "updateOrderStatus"
    /\ last.result = "null"
    /\ orders # <<>>

finished(p, op) == procs[p].op = op /\ procs[p].pc = "done"

\* C3: no product's stock_quantity is ever negative, however the statements
\* of createProduct, updateProduct, createOrder and updateOrderStatus
\* requests interleave.
C3_StockNeverNegative ==
    \A p \in DOMAIN products : products[p].stock_quantity >= 0

\* two createOrder requests ran to their commit and emptied a product
C3_Witness ==
    /\ \A p \in Procs : finished(p, "createOrder") /\ procs[p].result = "ok"
    /\ \E p \in DOMAIN products :
          products[p].stock_quantity = 0 /\ db0.products[p].stock_quantity > 0

\* C4: when two concurrent createOrder requests that name the same product
\* both commit, their quantities for it add up to at most the stock it had
\* before them, and its stock afterwards is that stock minus their sum.
C4_NoJointOversell ==
    (\A p \in Procs : finished(p, "createOrder") /\ procs[p].result = "ok")
      => \A pid \in DOMAIN db0.products :
            LET asked == quantityFor(procs[1].input.items, pid, 1)
                           + quantityFor(procs[2].input.items, pid, 1)
            IN (references(procs[1].input.items, pid)
                  /\ references(procs[2].input.items, pid))
                 => /\ asked <= db0.products[pid].stock_quantity
                    /\ products[pid].stock_quantity
                         = db0.products[pid].stock_quantity - asked

\* C8: when two concurrent requests cancel the same order, which was in a
\* non-terminal status, at most one of them succeeds and the stock of every
\* product ends at its earlier value plus the order's quantity for it, once.
C8_ConcurrentCancelRestoresOnce ==
    (/\ \A p \in Procs :
           /\ finished(p, "updateOrderStatus")
           /\ procs[p].input.status = "cancelled"
           /\ procs[p].result \in {"ok", "InvalidTransition"}
     /\ procs[1].input.id = procs[2].input.id
     /\ procs[1].input.id \in DOMAIN db0.orders
     /\ db0.orders[procs[1].input.id].status \notin {"delivered", "cancelled"})
      => /\ ~(procs[1].result = "ok" /\ procs[2].result = "ok")
         /\ \A pid \in DOMAIN db0.products :
               products[pid].stock_quantity
                 = db0.products[pid].stock_quantity
                     + quantityFor(itemsOfOrder(db0.orderItems,
                                                procs[1].input.id), pid, 1)

\* the stores that differ from d only in orders that seller S does not own:
\* such an order in another status, under another owner that is not S, one
\* of its items with another quantity, or the latest such order and its
\* items absent
storesDifferingFor(d, S) ==
    LET others == {id \in DOMAIN d.orders : d.orders[id].seller_id # S}
    IN {[d EXCEPT !.orders[id].status = st] :
            id \in others, st \in orderStatusSchema}
       \cup {[d EXCEPT !.orders[id].seller_id = o] :
            id \in others, o \in UserIds \ {S}}
       \cup {[d EXCEPT !.orderItems[n].quantity = q] :
            n \in {m \in DOMAIN d.orderItems : d.orderItems[m].order_id \in others},
            q \in 1..MaxQty}
       \cup {[d EXCEPT !.orders = SubSeq(@, 1, Len(@) - 1),
                       !.orderItems = SelectSeq(@, LAMBDA r :
                                          r.order_id # Len(d.orders))] :
            id \in others \cap {Len(d.orders)}}

\* C11: for every seller S and every two stores that differ only in orders
\* S does not own, updateOrderStatus with seller_id = S on the id of such an
\* order (or an id without an order) returns null in both stores and changes
\* neither, for every target status: S cannot tell the two stores apart.
C11_NonInterference ==
    \A S \in UserIds :
        LET stores == {db} \cup storesDifferingFor(db, S)
        IN \A id \in 1..(MaxOrders + 1), st \in orderStatusSchema :
              LET input == [id |-> id, status |-> st, seller_id |-> S]
              IN ~ownedBy(input)
                   => \A d \in stores, k \in {0, NoFault} :
                         updateOrderStatus(d, input, k)
                           = [result |-> "null", db |-> d]

\* another seller's update returned null while an order with items, already
\* confirmed by its own seller, existed
C11_Witness ==
    /\ last.op = "updateOrderStatus"
    /\ last.result = "null"
    /\ \E id \in DOMAIN orders :
          /\ orders[id].status = "confirmed"
          /\ itemsOfOrder(orderItems, id) # <<>>
          /\ storesDifferingFor(db, 3) # {}

\* C12: in every reachable state, whatever status transitions were made,
\* each order's total_value equals the sum of the total_price of the order
\* items that belong to it.
C12_TotalIsSumOfItems ==
    \A id \in DOMAIN orders :
        orders[id].total_value = totalOf(itemsOfOrder(orderItems, id), 1)

\* C13: a createOrder call that succeeds persists exactly one order item for
\* each validated line, and for every product its lines name, the lines'
\* quantities for that product add up to at most the stock the product had
\* before the call, and the stock goes down by exactly that sum.
C13_OneItemAndDecrementPerLine ==
    [][(last'.op = "createOrder" /\ last'.result = "ok")
          => LET newItems == itemsOfOrder(orderItems', Len(orders'))
             IN /\ Len(newItems) = last'.validated
                /\ Len(orderItems') = Len(orderItems) + last'.validated
                /\ \A p \in DOMAIN products :
                      references(newItems, p)
                        => /\ quantityFor(newItems, p, 1)
                                <= products[p].stock_quantity
                           /\ products'[p].stock_quantity
                                = products[p].stock_quantity
                                    - quantityFor(newItems, p, 1)]_vars

\* what the specification asks of a line: its product is one of the seller's,
\* the quantity is at most the product's stock, the price is the product's
productOfSeller(line, seller_id) ==
    line.product_id \in DOMAIN products
      /\ products[line.product_id].seller_id = seller_id

acceptable(line, seller_id) ==
    /\ productOfSeller(line, seller_id)
    /\ line.quantity <= products[line.product_id].stock_quantity
    /\ Abs(line.unit_price - products[line.product_id].price) <= PRICE_TOLERANCE

\* the lines of a request that createOrder reaches: all lines before them
\* are acceptable
reached(input) ==
    {i \in DOMAIN input.items :
        \A j \in 1..(i - 1) : acceptable(input.items[j], input.seller_id)}

\* C14: a line that createOrder reaches, on a product of the seller, makes
\* the call fail with InsufficientStock exactly when its quantity is greater
\* than the product's stock; and when its quantity equals the stock and the
\* call succeeds, the product is left with stock 0.
C14_InsufficientStockBoundary ==
    \A input \in CreateOrderRequests :
        usersError(input) = "ok"
          => LET out == createOrder(db, input)
             IN \A i \in reached(input) :
                   LET line == input.items[i]
                   IN productOfSeller(line, input.seller_id)
                        => /\ (line.quantity
                                 > products[line.product_id].stock_quantity)
                                => out.result = "InsufficientStock"
                           /\ (out.result = "InsufficientStock"
                                 /\ ~acceptable(line, input.seller_id))
                                => line.quantity
                                     > products[line.product_id].stock_quantity
                           /\ (line.quantity
                                 = products[line.product_id].stock_quantity
                                 /\ out.result = "ok")
                                => out.db.products[line.product_id]
                                      .stock_quantity = 0

\* C15: the unit_price of every order item that a successful createOrder
\* persists is the price its product has when the order is created, and a
\* request with a line (reached, on a product of the seller, within stock)
\* whose unit_price is not the product's price fails with PriceMismatch.
C15_UnitPriceIsProductPrice ==
    [][/\ (last'.op = "createOrder" /\ last'.result = "ok")
            => \A n \in (Len(orderItems) + 1)..Len(orderItems') :
                  orderItems'[n].unit_price
                    = products[orderItems'[n].product_id].price
       /\ \A input \in ShopCreateOrderInputs :
             \A i \in reached(input) :
                LET line == input.items[i]
                IN (/\ productOfSeller(line, input.seller_id)
                    /\ line.quantity <= products[line.product_id].stock_quantity
                    /\ line.unit_price # products[line.product_id].price)
                     => createOrder(db, input).result = "PriceMismatch"]_vars

hasRole(id, role) == id \in DOMAIN usersTable /\ usersTable[id] = role

\* C16: in every reachable state each order's customer_id is a user with
\* role customer and its seller_id a user with role seller; and createOrder
\* fails with CustomerNotFound, changing nothing, when the customer is
\* missing or not a customer, and otherwise with SellerNotFound when the
\* seller is missing or not a seller.
C16_OrderPartiesHaveTheirRoles ==
    /\ \A id \in DOMAIN orders :
          /\ hasRole(orders[id].customer_id, "customer")
          /\ hasRole(orders[id].seller_id, "seller")
    /\ \A c \in UserIds, s \in UserIds, line \in Lines :
          LET input == [customer_id |-> c, seller_id |-> s, items |-> <<line>>]
              out == createOrder(db, input)
          IN /\ ~hasRole(c, "customer")
                  => out = [result |-> "CustomerNotFound", db |-> db]
             /\ (hasRole(c, "customer") /\ ~hasRole(s, "seller"))
                  => out = [result |-> "SellerNotFound", db |-> db]

\* a createOrder call failed on its customer or its seller while the seller
\* had products on sale
C16_Witness ==
    /\ last.op = "createOrder"
    /\ last.result \in {"CustomerNotFound", "SellerNotFound"}
    /\ products # <<>>

\* C17: in every reachable state each order item references a product whose
\* seller_id is the seller_id of the item's order; and a createOrder request
\* that reaches a line whose product does not exist or belongs to another
\* seller fails with ProductNotFoundForSeller and changes nothing.
C17_ItemsAreOfTheOrdersSeller ==
    /\ \A n \in DOMAIN orderItems :
          /\ orderItems[n].order_id \in DOMAIN orders
          /\ orderItems[n].product_id \in DOMAIN products
          /\ products[orderItems[n].product_id].seller_id
               = orders[orderItems[n].order_id].seller_id
    /\ \A s \in {u \in UserIds : hasRole(u, "seller")}, items \in ItemLists :
          LET input == [customer_id |-> 1, seller_id |-> s, items |-> items]
          IN (\E i \in reached(input) : ~productOfSeller(items[i], s))
               => createOrder(db, input)
                    = [result |-> "ProductNotFoundForSeller", db |-> db]

\* a createOrder call failed on a line's product although products were on
\* sale: the product was another seller's, or there was no such product
C17_Witness ==
    /\ last.op = "createOrder"
    /\ last.result = "ProductNotFoundForSeller"
    /\ Len(products) = MaxProducts

\* C18: every order that appears is in status pending_confirmation when it
\* appears, and a createOrder call that succeeds makes exactly one order
\* appear, whatever the request holds.
C18_CreatedPendingConfirmation ==
    [][/\ \A id \in DOMAIN orders' \ DOMAIN orders :
             orders'[id].status = "pending_confirmation"
       /\ (last'.op = "createOrder" /\ last'.result = "ok")
            => DOMAIN orders' \ DOMAIN orders = {Len(orders) + 1}]_vars

\* a second order was created after the first one had left
\* pending_confirmation
C18_Witness ==
    /\ last.op = "createOrder"
    /\ last.result = "ok"
    /\ Len(orders) = MaxOrders + 1
    /\ orders[1].status # "pending_confirmation"
    /\ orders[Len(orders)].status = "pending_confirmation"

\* C19: once an order's status is delivered or cancelled, no step of any
\* request changes it: whatever updateOrderStatus requests are made on the
\* order, for any target status and any seller, the status stays as it is.
C19_TerminalStatusNeverChanges ==
    [][\A id \in DOMAIN orders :
          orders[id].status \in {"delivered", "cancelled"}
            => /\ id \in DOMAIN orders'
               /\ orders'[id].status = orders[id].status]_vars

statusChanged == {id \in DOMAIN orders : orders'[id].status # orders[id].status}

\* C21: an updateOrderStatus call that succeeds changes the status of one
\* order; when the new status is confirmed, delivering or delivered every
\* product's stock stays as it was, and when it is cancelled only products
\* that the order's items reference may change stock. A call that returns
\* null or is rejected as an invalid transition changes no stock either.
C21_StockChangesOnlyOnCancel ==
    [][(last'.op = "updateOrderStatus")
          => /\ last'.result = "ok"
                  => /\ Cardinality(statusChanged) = 1
                     /\ \A id \in statusChanged :
                           IF orders'[id].status = "cancelled"
                           THEN \A p \in DOMAIN products :
                                   ~references(itemsOfOrder(orderItems, id), p)
                                     => products'[p] = products[p]
                           ELSE products' = products
             /\ last'.result \in {"null", "InvalidTransition"}
                  => products' = products]_vars

\* status updates succeeded on two orders: one was delivered, the other
\* cancelled with its items' stock restored
C21_Witness ==
    /\ last.op = "updateOrderStatus"
    /\ last.result = "ok"
    /\ Len(orders) = MaxOrders + 1
    /\ orders[1].status = "delivered"
    /\ orders[Len(orders)].status = "cancelled"
    /\ \E p \in DOMAIN products :
          ~references(itemsOfOrder(orderItems, Len(orders)), p)

\* an order row without its status
contentOf(order) ==
    [customer_id |-> order.customer_id, seller_id |-> order.seller_id,
     total_value |-> order.total_value]

\* C22: no step of a createOrder, updateOrderStatus, updateProduct or
\* createProduct request changes the customer_id, seller_id or total_value of
\* an existing order or removes the order, and none changes or removes an
\* existing order item; the order items a step adds belong to an order the
\* step adds.
C22_OrderContentNeverChanges ==
    [][/\ \A id \in DOMAIN orders :
             /\ id \in DOMAIN orders'
             /\ contentOf(orders'[id]) = contentOf(orders[id])
       /\ Len(orderItems') >= Len(orderItems)
       /\ SubSeq(orderItems', 1, Len(orderItems)) = orderItems
       /\ \A n \in (Len(orderItems) + 1)..Len(orderItems') :
             orderItems'[n].order_id \in DOMAIN orders' \ DOMAIN orders]_vars

\* a second order was created beside an order that existed before, and the
\* earlier order's status was updated
C22_Witness ==
    /\ db0.orders # <<>>
    /\ Len(orders) = Len(db0.orders) + 1
    /\ \E p \in Procs : finished(p, "createOrder") /\ procs[p].result = "ok"
    /\ \E p \in Procs :
          /\ finished(p, "updateOrderStatus")
          /\ procs[p].result = "ok"
          /\ orders[1].status # db0.orders[1].status

\* C23: after every step each product's seller_id is a user with role
\* seller and every product that existed keeps its seller_id; a
\* createProduct call adds a product exactly when it succeeds, and when it
\* fails (no such user, or the user is not a seller) it changes nothing.
C23_ProductsBelongToSellers ==
    [][/\ \A p \in DOMAIN products' :
             hasRole(products'[p].seller_id, "seller")
       /\ \A p \in DOMAIN products :
             /\ p \in DOMAIN products'
             /\ products'[p].seller_id = products[p].seller_id
       /\ last'.op = "createProduct"
            => /\ last'.result \in {"ok", "SellerNotFound", "NotASeller"}
               /\ last'.result = "ok" <=> Len(products') = Len(products) + 1
               /\ last'.result # "ok" => UNCHANGED tables]_vars

\* createProduct was refused for a customer after the seller had listed a
\* product
C23_Witness ==
    /\ last.op = "createProduct"
    /\ last.result = "NotASeller"
    /\ products # <<>>

\* C24: with userId and userRole given, getOrderById returns the order only
\* when the role is customer and userId is the order's customer_id, or the
\* role is seller and userId is the order's seller_id; for every other user
\* it returns null; and in every case the tables are left as they were.
C24_OnlyOwnOrdersAreReturned ==
    \A input \in GetOrderByIdInputs :
        LET out == getOrderById(db, input)
            own == /\ input.id \in DOMAIN orders
                   /\ \/ (input.userRole = "customer"
                            /\ orders[input.id].customer_id = input.userId)
                      \/ (input.userRole = "seller"
                            /\ orders[input.id].seller_id = input.userId)
        IN /\ out.db = db
           /\ (input.userId # undefined /\ input.userRole # "undefined")
                => /\ out.result = "order" => own
                   /\ ~own => out.result = "null"

\* getOrderById returned null although an order existed
C24_Witness ==
    /\ last.op = "getOrderById"
    /\ last.result = "null"
    /\ orders # <<>>
    /\ orderItems # <<>>

\* the defects of a request, each with its place in the order of the checks:
\* the customer (0), the seller (1), then for line i the product's owner
\* (3i), the stock (3i + 1) and the price (3i + 2)
defectsOf(input) ==
    {<<0, "CustomerNotFound">> : x \in {1} \ {y \in {1} :
                                     hasRole(input.customer_id, "customer")}}
    \cup {<<1, "SellerNotFound">> : x \in {1} \ {y \in {1} :
                                     hasRole(input.seller_id, "seller")}}
    \cup {<<3 * i, "ProductNotFoundForSeller">> :
             i \in {j \in DOMAIN input.items :
                      ~productOfSeller(input.items[j], input.seller_id)}}
    \cup {<<3 * i + 1, "InsufficientStock">> :
             i \in {j \in DOMAIN input.items :
                      /\ input.items[j].product_id \in DOMAIN products
                      /\ input.items[j].quantity
                           > products[input.items[j].product_id].stock_quantity}}
    \cup {<<3 * i + 2, "PriceMismatch">> :
             i \in {j \in DOMAIN input.items :
                      /\ input.items[j].product_id \in DOMAIN products
                      /\ Abs(input.items[j].unit_price
                               - products[input.items[j].product_id].price)
                           > PRICE_TOLERANCE}}

\* the error of the earliest defect, ok when there is none
earliestDefect(input) ==
    LET ds == defectsOf(input)
    IN IF ds = {} THEN "ok"
       ELSE (CHOOSE d \in ds : \A e \in ds : d[1] <= e[1])[2]

\* C25: createOrder fails with the error of the earliest defect of the
\* request in the order customer, seller, then line by line owner, stock,
\* price, whatever later defects the request has; it succeeds when there is
\* no defect; and a request that fails leaves no order row.
C25_EarliestCheckDecides ==
    \A input \in CreateOrderRequests :
        LET out == createOrder(db, input)
        IN /\ out.result = earliestDefect(input)
           /\ out.result # "ok" => out.db.orders = orders

\* a createOrder call failed on the price of its last line after the lines
\* before it had passed
C25_Witness ==
    /\ last.op = "createOrder"
    /\ last.result = "PriceMismatch"
    /\ last.validated = MaxItems - 1
    /\ Len(products) = MaxProducts

\* no product is named by two rows of items
distinctProducts(items) ==
    \A a, b \in DOMAIN items :
        a # b => items[a].product_id # items[b].product_id

\* C26: when a cancel of an earlier order and a concurrent createOrder (naming
\* each of its products once) have both succeeded, every product's stock is its
\* stock before the two requests, plus the cancelled order's quantity for
\* it, minus the new order's quantity for it: no stock update is lost.
C26_NoLostStockUpdate ==
    \A c, n \in Procs :
        (/\ finished(c, "updateOrderStatus")
         /\ procs[c].input.status = "cancelled"
         /\ procs[c].input.id \in DOMAIN db0.orders
         /\ procs[c].result = "ok"
         /\ finished(n, "createOrder")
         /\ procs[n].result = "ok"
         /\ distinctProducts(procs[n].input.items))
          => \A pid \in DOMAIN db0.products :
                products[pid].stock_quantity
                  = db0.products[pid].stock_quantity
                      + quantityFor(itemsOfOrder(db0.orderItems,
                                                 procs[c].input.id), pid, 1)
                      - quantityFor(procs[n].input.items, pid, 1)

\* C27: updateProduct on a product that exists sets the price and the stock
\* that its input holds and keeps the one it does not hold, keeps the
\* product's seller_id, and leaves every other product, every order and
\* every order item as it was; on an id without a product it returns null
\* and changes nothing.
C27_UpdateProductFrame ==
    \A input \in UpdateProductInputs :
        LET out == updateProduct(db, input)
        IN IF input.id \notin DOMAIN products
           THEN out = [result |-> "null", db |-> db]
           ELSE /\ out.result = "ok"
                /\ out.db.orders = orders
                /\ out.db.orderItems = orderItems
                /\ DOMAIN out.db.products = DOMAIN products
                /\ \A p \in DOMAIN products \ {input.id} :
                      out.db.products[p] = products[p]
                /\ out.db.products[input.id].seller_id
                     = products[input.id].seller_id
                /\ out.db.products[input.id].price
                     = IF input.price = undefined
                       THEN products[input.id].price ELSE input.price
                /\ out.db.products[input.id].stock_quantity
                     = IF input.stock_quantity = undefined
                       THEN products[input.id].stock_quantity
                       ELSE input.stock_quantity

\* a product was updated while an order on the seller's products existed
C27_Witness ==
    /\ last.op = "updateProduct"
    /\ last.result = "ok"
    /\ Len(products) = MaxProducts
    /\ orderItems # <<>>

\* the sum of the quantities of the order items items[i..] that reference
\* product p and belong to an order that is not cancelled
RECURSIVE heldQuantity(_, _, _)
heldQuantity(items, p, i) ==
    IF i > Len(items) THEN 0
    ELSE (IF items[i].product_id = p
             /\ orders[items[i].order_id].status # "cancelled"
          THEN items[i].quantity ELSE 0)
         + heldQuantity(items, p, i + 1)

\* C28: in every state reached by createOrder and updateOrderStatus calls
\* made one after the other, each product's initial stock is its current
\* stock plus the quantities of the order items on it whose order is not
\* cancelled.
C28_StockConservation ==
    \A p \in DOMAIN products :
        db0.products[p].stock_quantity
          = products[p].stock_quantity + heldQuantity(orderItems, p, 1)

\* two updateOrderStatus requests on the same order of the store db0, with
\* different target statuses
rivalUpdates ==
    /\ \A p \in Procs : procs[p].op = "updateOrderStatus"
    /\ procs[1].input.id = procs[2].input.id
    /\ procs[1].input.id \in DOMAIN db0.orders
    /\ procs[1].input.status # procs[2].input.status

\* the stock of a product that order id names is above its stock in db0
stockRestored(prods, id) ==
    \E pid \in DOMAIN db0.products :
        /\ references(itemsOfOrder(db0.orderItems, id), pid)
        /\ prods[pid].stock_quantity > db0.products[pid].stock_quantity

\* C29: however the steps of two concurrent updateOrderStatus requests on
\* the same order with different targets interleave, each change of the
\* order's status follows an edge of the transition table, and when both
\* requests have returned (neither with a store error) the order is not in
\* a non-cancelled status with its items' stock restored.
C29_RivalUpdatesKeepStatusAndStock ==
    [][rivalUpdates'
         => LET id == procs'[1].input.id
            IN /\ orders'[id].status # orders[id].status
                    => orders'[id].status
                         \in VALID_STATUS_TRANSITIONS(orders[id].status)
               /\ (\A p \in Procs :
                      /\ procs'[p].pc = "done"
                      /\ procs'[p].result \in {"ok", "InvalidTransition"})
                    => ~(orders'[id].status # "cancelled"
                           /\ stockRestored(products', id))]_vars

\* the statuses that n edges of the transition table lead to from a status
\* of S
RECURSIVE statusesAfter(_, _)
statusesAfter(S, n) ==
    IF n = 0 THEN S
    ELSE statusesAfter(UNION {VALID_STATUS_TRANSITIONS(s) : s \in S}, n - 1)

\* the statuses that one or more edges lead to from s; a path with more
\* edges than there are statuses repeats one
reachableFrom(s) ==
    UNION {statusesAfter({s}, n) : n \in 1..Cardinality(orderStatusSchema)}

\* the length of the longest path of the table from s, up to the number of
\* statuses
updatesLeft(s) ==
    CHOOSE n \in 0..Cardinality(orderStatusSchema) :
        /\ statusesAfter({s}, n) # {}
        /\ \A m \in (n + 1)..Cardinality(orderStatusSchema) :
              statusesAfter({s}, m) = {}

\* no status leads back to itself, and every status with a successor has
\* cancelled as a successor and leads to a status without successors
tableIsAcyclic ==
    \A s \in orderStatusSchema :
        /\ s \notin reachableFrom(s)
        /\ VALID_STATUS_TRANSITIONS(s) # {}
             => /\ "cancelled" \in VALID_STATUS_TRANSITIONS(s)
                /\ \E t \in reachableFrom(s) : VALID_STATUS_TRANSITIONS(t) = {}

\* C30: in every behaviour of calls made one after the other, an order
\* starts in a status that at most 3 updates can follow, every change of its
\* status takes an edge of the table to a status that strictly fewer updates
\* can follow (so it has at most 3 successful updates and never returns to a
\* status it left), and the table has no cycle, with cancelled one edge away
\* and a terminal status reachable from every non-terminal status.
C30_StatusMachineAcyclicBounded ==
    [][/\ tableIsAcyclic
       /\ \A id \in DOMAIN orders' \ DOMAIN orders :
             updatesLeft(orders'[id].status) <= 3
       /\ \A id \in statusChanged :
             /\ orders'[id].status \in VALID_STATUS_TRANSITIONS(orders[id].status)
             /\ updatesLeft(orders'[id].status) < updatesLeft(orders[id].status)
             /\ orders[id].status \notin reachableFrom(orders'[id].status)]_vars

\* an update succeeded with one order delivered, three edges away from
\* pending_confirmation, and another order cancelled
C30_Witness ==
    /\ last.op = "updateOrderStatus"
    /\ last.result = "ok"
    /\ \E a, b \in DOMAIN orders :
          /\ orders[a].status = "delivered"
          /\ orders[b].status = "cancelled"

====
